---- MODULE Spec2Model ----
(***************************************************************************)
(* Model of the 6522 VIA emulation of pda/c64.go (src/via6522/via6522.go): *)
(* the register file, the two peripheral lists, and the operations         *)
(* NewVia6522, AttachToPortA/B, Read, Write, Reset and Shutdown.           *)
(*                                                                         *)
(* A peripheral is an object behind the ParallelPeripheral interface.  It  *)
(* is identified by a number; its PinMask is fixed, the byte its Read      *)
(* returns is chosen by the environment at each call, and its Shutdown     *)
(* hook either returns or panics.  The calls an operation makes on         *)
(* peripherals (and the diagnostics it prints) are recorded in `calls`.    *)
(* A Go panic that nothing recovers ends the program: after one, no        *)
(* operation runs.                                                         *)
(***************************************************************************)
EXTENDS Integers, Sequences, FiniteSets, TLC

\* ------------------------------------------------------------------ bounds

\* Number of peripheral objects constructed and attached in a run.
MaxPeripherals == 2

\* ------------------------------------------------------- program constants

viaOrb == 0
viaOra == 1
viaDdrb == 2
viaDdra == 3
viaPcr == 12

\* ------------------------------------------------------------ byte algebra

Byte == 0..255

RECURSIVE AndBits(_, _, _)
AndBits(x, y, n) ==
    IF n = 0 THEN 0
    ELSE (x % 2) * (y % 2) + 2 * AndBits(x \div 2, y \div 2, n - 1)

AndTable == [x \in Byte |-> [y \in Byte |-> AndBits(x, y, 8)]]

\* Go's & | ^ on bytes.
And(x, y) == AndTable[x][y]
Or(x, y) == x + y - AndTable[x][y]
Not(x) == 255 - x

\* Bit i of byte x (used by the claims, not by the model of the code).
Bit(x, i) == (x \div (2 ^ i)) % 2

Range(s) == {s[i] : i \in 1..Len(s)}

\* ------------------------------------------------------------------ inputs

\* Register-select addresses the bus can present (Size() is 16); the handled
\* ones and a sample of the unhandled ones.
HandledAddrs == {viaOrb, viaOra, viaDdrb, viaDdra, viaPcr}
Addrs == HandledAddrs \cup {13, 15}

\* Bytes the processor writes to the output, direction and control registers.
OrData == {60, 255}
DdrData == {15, 255}
PcrData == {165}
WriteData(a) ==
    IF a \in {viaOrb, viaOra} THEN OrData
    ELSE IF a \in {viaDdrb, viaDdra} THEN DdrData
    ELSE PcrData

\* Bytes a peripheral's Read() returns.
ReadData == {165, 60}

\* The peripheral objects, numbered in the order they are constructed, and
\* their pin masks.
Peripherals == 1..MaxPeripherals
PinMasks == <<15, 240, 255, 60>>
PinMask(p) == PinMasks[((p - 1) % Len(PinMasks)) + 1]

\* The options NewVia6522 is constructed with.
OptionChoices ==
    { [DumpBinary |-> FALSE, DumpAscii |-> FALSE],
      [DumpBinary |-> TRUE, DumpAscii |-> TRUE] }

\* ------------------------------------------------------------------- state

VARIABLES
    ora, orb, ira, irb, ddra, ddrb, pcr,   \* Via6522 registers
    options,                               \* Via6522.options
    paPeripherals, pbPeripherals,          \* Via6522 peripheral lists
    last,                                  \* the last operation and its outcome
    calls,                                 \* what the last operation invoked
    written                                \* history: last byte written per
                                           \* register since the last Reset

regs == <<ora, orb, ira, irb, ddra, ddrb, pcr>>
lists == <<paPeripherals, pbPeripherals>>
viaVars == <<ora, orb, ira, irb, ddra, ddrb, pcr, options,
             paPeripherals, pbPeripherals, last, calls, written>>

\* The absent value of a field of `last`.
None == 0 - 1

Op(op, a, data, p, ret, outcome) ==
    [op |-> op, a |-> a, data |-> data, p |-> p, ret |-> ret, outcome |-> outcome]

Call(p, m, v) == [p |-> p, m |-> m, v |-> v]

\* No panic has ended the program.
Running == last.outcome = "ok"

Attached == Range(paPeripherals) \cup Range(pbPeripherals)

\* -------------------------------------------------------------- NewVia6522

Init ==
    /\ ora = 0 /\ orb = 0 /\ ira = 0 /\ irb = 0
    /\ ddra = 0 /\ ddrb = 0 /\ pcr = 0
    /\ options \in OptionChoices
    /\ paPeripherals = <<>>
    /\ pbPeripherals = <<>>
    /\ last = Op("NewVia6522", None, None, None, None, "ok")
    /\ calls = <<>>
    /\ written = [a \in HandledAddrs |-> 0]

\* ------------------------------------------------------------------ Attach

\* Each attachment is of a newly constructed peripheral (as in main, which
\* attaches what NewSsd1306 just returned).
NewPeripheral == Len(paPeripherals) + Len(pbPeripherals) + 1

\* p.PinMask() is evaluated as an argument of the Printf, which then formats
\* p with %s (its String method).
AttachCalls(p) == <<Call(p, "PinMask", PinMask(p)), Call(p, "String", 0)>>

AttachToPortA(p) ==
    /\ Running
    /\ p = NewPeripheral
    /\ paPeripherals' = Append(paPeripherals, p)
    /\ last' = Op("AttachToPortA", None, None, p, None, "ok")
    /\ calls' = AttachCalls(p)
    /\ UNCHANGED <<regs, options, pbPeripherals, written>>

AttachToPortB(p) ==
    /\ Running
    /\ p = NewPeripheral
    /\ pbPeripherals' = Append(pbPeripherals, p)
    /\ last' = Op("AttachToPortB", None, None, p, None, "ok")
    /\ calls' = AttachCalls(p)
    /\ UNCHANGED <<regs, options, paPeripherals, written>>

\* ------------------------------------------------------------------- Reset

\* Mutant: Reset leaves the output registers as they are.
Reset_KeepsOutputRegisters ==
    /\ Running
    /\ ira' = 0 /\ irb' = 0
    /\ ddra' = 0 /\ ddrb' = 0 /\ pcr' = 0
    /\ last' = Op("Reset", None, None, None, None, "ok")
    /\ calls' = <<>>
    /\ written' = [a \in HandledAddrs |-> 0]
    /\ UNCHANGED <<ora, orb, options, lists>>

\* Mutant: Reset also empties the peripheral lists, as construction does.
Reset_DetachesPeripherals ==
    /\ Running
    /\ ora' = 0 /\ orb' = 0 /\ ira' = 0 /\ irb' = 0
    /\ ddra' = 0 /\ ddrb' = 0 /\ pcr' = 0
    /\ paPeripherals' = <<>>
    /\ pbPeripherals' = <<>>
    /\ last' = Op("Reset", None, None, None, None, "ok")
    /\ calls' = <<>>
    /\ written' = [a \in HandledAddrs |-> 0]
    /\ UNCHANGED options

Reset ==
    /\ Running
    /\ ora' = 0 /\ orb' = 0 /\ ira' = 0 /\ irb' = 0
    /\ ddra' = 0 /\ ddrb' = 0 /\ pcr' = 0
    /\ last' = Op("Reset", None, None, None, None, "ok")
    /\ calls' = <<>>
    /\ written' = [a \in HandledAddrs |-> 0]
    /\ UNCHANGED <<options, lists>>

\* -------------------------------------------------------------------- Read

\* Mutant: the byte read is not masked by the peripheral's pin mask.
InputContribution_NoPinMask(p, r) == r

\* p.Read() & p.PinMask(), with r the byte p.Read() returned.
InputContribution(p, r) == And(r, PinMask(p))

\* The loop of Read: irx = 0; for each p in order: irx |= p.Read() & p.PinMask().
\* `in` gives the byte each peripheral's Read() returns in this call.
RECURSIVE ComposeInput(_, _, _)
ComposeInput(irx, peripherals, in) ==
    IF peripherals = <<>> THEN irx
    ELSE ComposeInput(Or(irx, InputContribution(Head(peripherals), in[Head(peripherals)])),
                      Tail(peripherals), in)

\* The peripheral methods that loop invokes, in order.
ReadCalls(peripherals, in) ==
    [i \in 1..(2 * Len(peripherals)) |->
        LET p == peripherals[(i + 1) \div 2] IN
        IF i % 2 = 1 THEN Call(p, "Read", in[p])
        ELSE Call(p, "PinMask", PinMask(p))]

\* Mutant: the input bits are not masked by the inverted direction register.
readMixedInputOutput_NoInputMask(in, out, ddr) == Or(And(out, ddr), in)

readMixedInputOutput(in, out, ddr) == Or(And(out, ddr), And(in, Not(ddr)))

ReadIrb ==
    \E in \in [Range(pbPeripherals) -> ReadData] :
        /\ irb' = ComposeInput(0, pbPeripherals, in)
        /\ last' = Op("Read", viaOrb, None, None,
                      readMixedInputOutput(irb', orb, ddrb), "ok")
        /\ calls' = ReadCalls(pbPeripherals, in)
        /\ UNCHANGED <<ora, orb, ira, ddra, ddrb, pcr, options, lists, written>>

\* Mutant: case 0x1 does not clear ira before the loop.
ReadIra_Accumulates ==
    \E in \in [Range(paPeripherals) -> ReadData] :
        /\ ira' = ComposeInput(ira, paPeripherals, in)
        /\ last' = Op("Read", viaOra, None, None,
                      readMixedInputOutput(ira', ora, ddra), "ok")
        /\ calls' = ReadCalls(paPeripherals, in)
        /\ UNCHANGED <<ora, orb, irb, ddra, ddrb, pcr, options, lists, written>>

ReadIra ==
    \E in \in [Range(paPeripherals) -> ReadData] :
        /\ ira' = ComposeInput(0, paPeripherals, in)
        /\ last' = Op("Read", viaOra, None, None,
                      readMixedInputOutput(ira', ora, ddra), "ok")
        /\ calls' = ReadCalls(paPeripherals, in)
        /\ UNCHANGED <<ora, orb, irb, ddra, ddrb, pcr, options, lists, written>>

\* case 0x2, 0x3, 0xC: return the stored register.
ReadStored(a) ==
    /\ last' = Op("Read", a, None, None,
                  IF a = viaDdrb THEN ddrb ELSE IF a = viaDdra THEN ddra ELSE pcr,
                  "ok")
    /\ calls' = <<>>
    /\ UNCHANGED <<regs, options, lists, written>>

\* Mutant: an unhandled address reads as 0.
ReadUnhandled_ReturnsZero(a) ==
    /\ last' = Op("Read", a, None, None, 0, "ok")
    /\ calls' = <<>>
    /\ UNCHANGED <<regs, options, lists, written>>

\* default: panic.
ReadUnhandled(a) ==
    /\ last' = Op("Read", a, None, None, None, "panic")
    /\ calls' = <<>>
    /\ UNCHANGED <<regs, options, lists, written>>

Read(a) ==
    /\ Running
    /\ \/ a = viaOrb /\ ReadIrb
       \/ a = viaOra /\ ReadIra
       \/ a \in {viaDdrb, viaDdra, viaPcr} /\ ReadStored(a)
       \/ a \notin HandledAddrs /\ ReadUnhandled(a)

\* ------------------------------------------------------------------- Write

\* Mutant: the byte fanned out is not masked by the direction register.
FanoutData_NoDdrMask(data, ddr) == data

\* The first argument Write passes to handleDataWrite: data & ddrx.
FanoutData(data, ddr) == And(data, ddr)

\* The diagnostics handleDataWrite prints before it invokes any peripheral.
DiagCalls(data) ==
    (IF options.DumpBinary THEN <<Call(0, "DumpBinary", data)>> ELSE <<>>)
    \o (IF options.DumpAscii THEN <<Call(0, "DumpAscii", data)>> ELSE <<>>)

\* The loop of handleDataWrite: for each p in order, p.Write(data & p.PinMask()).
FanoutCalls(data, peripherals) ==
    [i \in 1..(2 * Len(peripherals)) |->
        LET p == peripherals[(i + 1) \div 2] IN
        IF i % 2 = 1 THEN Call(p, "PinMask", PinMask(p))
        ELSE Call(p, "Write", And(data, PinMask(p)))]

\* Mutant: the fan-out loop starts at the second peripheral.
handleDataWrite_SkipsFirst(data, peripherals) ==
    DiagCalls(data)
    \o FanoutCalls(data, IF peripherals = <<>> THEN <<>> ELSE Tail(peripherals))

handleDataWrite(data, peripherals) ==
    DiagCalls(data) \o FanoutCalls(data, peripherals)

WriteOrb(data) ==
    /\ orb' = data
    /\ calls' = handleDataWrite(FanoutData(data, ddrb), pbPeripherals)
    /\ UNCHANGED <<ora, ira, irb, ddra, ddrb, pcr>>

WriteOra(data) ==
    /\ ora' = data
    /\ calls' = handleDataWrite(FanoutData(data, ddra), paPeripherals)
    /\ UNCHANGED <<orb, ira, irb, ddra, ddrb, pcr>>

\* Mutant: case 0x2 stores into ddra.
WriteDdrb_StoresDdra(data) ==
    /\ ddra' = data
    /\ calls' = <<>>
    /\ UNCHANGED <<ora, orb, ira, irb, ddrb, pcr>>

WriteDdrb(data) ==
    /\ ddrb' = data
    /\ calls' = <<>>
    /\ UNCHANGED <<ora, orb, ira, irb, ddra, pcr>>

\* Mutant: a change of DDRA fans the output register out again.
WriteDdra_Renotifies(data) ==
    /\ ddra' = data
    /\ calls' = handleDataWrite(FanoutData(ora, data), paPeripherals)
    /\ UNCHANGED <<ora, orb, ira, irb, ddrb, pcr>>

WriteDdra(data) ==
    /\ ddra' = data
    /\ calls' = <<>>
    /\ UNCHANGED <<ora, orb, ira, irb, ddrb, pcr>>

WritePcr(data) ==
    /\ pcr' = data
    /\ calls' = <<>>
    /\ UNCHANGED <<ora, orb, ira, irb, ddra, ddrb>>

\* default: panic.
WriteUnhandled(a, data) ==
    /\ last' = Op("Write", a, data, None, None, "panic")
    /\ calls' = <<>>
    /\ UNCHANGED <<regs, options, lists, written>>

Write(a, data) ==
    /\ Running
    /\ \/ /\ a \in HandledAddrs
          /\ \/ a = viaOrb /\ WriteOrb(data)
             \/ a = viaOra /\ WriteOra(data)
             \/ a = viaDdrb /\ WriteDdrb(data)
             \/ a = viaDdra /\ WriteDdra(data)
             \/ a = viaPcr /\ WritePcr(data)
          /\ last' = Op("Write", a, data, None, None, "ok")
          /\ written' = [written EXCEPT ![a] = data]
          /\ UNCHANGED <<options, lists>>
       \/ a \notin HandledAddrs /\ WriteUnhandled(a, data)

\* ------------------------------------------------------- control-line modes

\* Bit-offset into PCR for port A and port B.
viaPcrOffsetA == 0
viaPcrOffsetB == 4
PcrOffsets == {viaPcrOffsetA, viaPcrOffsetB}

\* Go's >> on a byte.
Shr(x, n) == x \div (2 ^ n)

\* (via.pcr >> portOffset) & 1
control1Mode(portOffset) == And(Shr(pcr, portOffset), 1)

\* Mutant: the 3-bit field is taken from portOffset, not portOffset + 1.
control2Mode_FromOffset(portOffset) == And(Shr(pcr, portOffset), 7)

\* (via.pcr >> (portOffset + 1)) & 0x7
control2Mode(portOffset) == And(Shr(pcr, portOffset + 1), 7)

\* A call of via.control1Mode(portOffset).
CallControl1Mode(portOffset) ==
    /\ Running
    /\ last' = Op("control1Mode", portOffset, None, None, control1Mode(portOffset), "ok")
    /\ calls' = <<>>
    /\ UNCHANGED <<regs, options, lists, written>>

\* A call of via.control2Mode(portOffset).
CallControl2Mode(portOffset) ==
    /\ Running
    /\ last' = Op("control2Mode", portOffset, None, None, control2Mode(portOffset), "ok")
    /\ calls' = <<>>
    /\ UNCHANGED <<regs, options, lists, written>>

\* ---------------------------------------------------------------- Shutdown

\* One range loop of Shutdown: for each p in order, p.String() for the Printf,
\* then p.Shutdown().  A hook in `failing` panics, which ends the loop.
RECURSIVE ShutdownLoop(_, _)
ShutdownLoop(peripherals, failing) ==
    IF peripherals = <<>> THEN <<>>
    ELSE LET p == Head(peripherals) IN
         <<Call(p, "String", 0), Call(p, "Shutdown", 0)>>
         \o (IF p \in failing THEN <<Call(p, "panic", 0)>>
             ELSE ShutdownLoop(Tail(peripherals), failing))

Panicked(cs) == cs # <<>> /\ cs[Len(cs)].m = "panic"

\* Port A's loop, then port B's unless a panic is already unwinding.
ShutdownCalls(failing) ==
    LET ca == ShutdownLoop(paPeripherals, failing) IN
    IF Panicked(ca) THEN ca ELSE ca \o ShutdownLoop(pbPeripherals, failing)

Shutdown ==
    /\ Running
    /\ \E failing \in SUBSET Attached :
        /\ calls' = ShutdownCalls(failing)
        /\ last' = Op("Shutdown", None, None, None, None,
                      IF Panicked(calls') THEN "panic" ELSE "ok")
    /\ UNCHANGED <<regs, options, lists, written>>

\* ============================================================== supervisor
\* mainReturningStatus of src/go6502.go: the startup sequence, the goroutine
\* that steps the processor, the select on exitChan and sigChan, the
\* post-mortem and the return through os.Exit.

\* Number of Steps the processor goroutine takes in a run.
MaxSteps == 3

\* Outcomes of the environment: the command-line options, whether the ROM
\* image loads, whether CreateBus reports an error, and the size of the RAM.
Configs ==
    [ViaSsd1306 : BOOLEAN, Debug : BOOLEAN, romOk : BOOLEAN, busOk : BOOLEAN,
     ramSize : {32768, 65536}]

\* Exit codes the processor publishes on ExitChan.
ExitCodes == {0, 2}

\* Register-select addresses the processor's program accesses on the VIA.
CpuViaAddrs == {viaOrb, viaDdrb, 13}

VARIABLES
    pc,           \* the statement of mainReturningStatus the supervisor is at
    cfg,          \* the outcomes of the environment, an element of Configs
    bus,          \* addressBus: the attachments, in order
    cpu,          \* the Cpu object: "none", "new", "reset"
    gpc,          \* the goroutine: "idle", "run", "send" (blocked on ExitChan)
    steps,        \* cpu.Step() calls begun
    exitChan,     \* the code a blocked sender offers on exitChan, or None
    sigChan,      \* signals buffered in sigChan (capacity 1)
    exitStatus,   \* var exitStatus int
    ram,          \* contents of the RAM (number of writes it has taken)
    core,         \* contents of the file "core", or None
    defers,       \* the deferred calls of mainReturningStatus, last first
    proc,         \* the process: "running", "exited", "panicked"
    trace,        \* history: the statements the supervisor has executed
    atInterrupt,  \* history: ram and steps when the signal was received
    hooked        \* history: peripherals whose Shutdown hook was invoked

supVars == <<pc, cfg, bus, cpu, gpc, steps, exitChan, sigChan, exitStatus,
             ram, core, defers, proc, trace, atInterrupt, hooked>>

vars == <<viaVars, supVars>>

\* The value of atInterrupt while no signal has been received.
NoInterrupt == [ram |-> None, steps |-> None]

\* The supervisor is not part of the run: the VIA is driven directly.
NoSupervisor ==
    /\ pc = "off" /\ cfg = None /\ bus = <<>> /\ cpu = "none" /\ gpc = "idle"
    /\ steps = 0 /\ exitChan = None /\ sigChan = 0 /\ exitStatus = 0
    /\ ram = 0 /\ core = None /\ defers = <<>> /\ proc = "running"
    /\ trace = <<>> /\ atInterrupt = NoInterrupt /\ hooked = {}

\* ----------------------------------------------------------------- startup

\* The supervisor is at statement `at` and the process is alive.
At(at) == proc = "running" /\ pc = at

\* The supervisor executes the statement it is at and moves to `to`.
Goto(to) == pc' = to /\ trace' = Append(trace, pc)

\* A panic in mainReturningStatus: the deferred calls run, then the process dies.
MainPanic ==
    /\ proc' = "panicked"
    /\ pc' = "done"
    /\ trace' = Append(trace, pc) \o <<"panic">> \o defers
    /\ defers' = <<>>

\* The Shutdown hooks a VIA operation of this step invoked are remembered.
NoteHooks ==
    hooked' = hooked \cup {calls'[i].p : i \in {j \in 1..Len(calls') : calls'[j].m = "Shutdown"}}

\* The state at entry of mainReturningStatus (the VIA as NewVia6522 makes it,
\* which nothing touches before line 30).
MainInit ==
    /\ Init
    /\ cfg \in Configs
    /\ pc = "RomFromFile" /\ bus = <<>> /\ cpu = "none" /\ gpc = "idle"
    /\ steps = 0 /\ exitChan = None /\ sigChan = 0 /\ exitStatus = 0
    /\ ram = 0 /\ core = None /\ defers = <<>> /\ proc = "running"
    /\ trace = <<>> /\ atInterrupt = NoInterrupt /\ hooked = {}

\* kernal, err := RomFromFile(kernalPath); if err != nil { panic(err) }
RomFromFile ==
    /\ At("RomFromFile")
    /\ IF cfg.romOk
       THEN Goto("NewVia6522") /\ UNCHANGED <<defers, proc>>
       ELSE MainPanic
    /\ UNCHANGED <<viaVars, cfg, bus, cpu, gpc, steps, exitChan, sigChan,
                   exitStatus, ram, core, atInterrupt, hooked>>

\* ram := &Ram{}; via := NewVia6522(options)
NewVia ==
    /\ At("NewVia6522")
    /\ Goto("AttachDisplay")
    /\ UNCHANGED <<viaVars, cfg, bus, cpu, gpc, steps, exitChan, sigChan,
                   exitStatus, ram, core, defers, proc, atInterrupt, hooked>>

\* if options.ViaSsd1306 { ssd1306 := NewSsd1306(); defer ssd1306.Close();
\*                         via.AttachToPortB(ssd1306) }
AttachDisplay ==
    /\ At("AttachDisplay")
    /\ Goto("ViaReset")
    /\ IF cfg.ViaSsd1306
       THEN /\ defers' = <<"ssd1306.Close">> \o defers
            /\ \E p \in Peripherals : AttachToPortB(p)
       ELSE UNCHANGED <<defers, viaVars>>
    /\ NoteHooks
    /\ UNCHANGED <<cfg, bus, cpu, gpc, steps, exitChan, sigChan,
                   exitStatus, ram, core, proc, atInterrupt>>

\* Mutant: the reset of the VIA also detaches its peripherals.
ViaReset_Detaches ==
    /\ At("ViaReset")
    /\ Goto("CreateBus")
    /\ Reset_DetachesPeripherals
    /\ NoteHooks
    /\ UNCHANGED <<cfg, bus, cpu, gpc, steps, exitChan, sigChan,
                   exitStatus, ram, core, defers, proc, atInterrupt>>

\* via.Reset()
ViaReset ==
    /\ At("ViaReset")
    /\ Goto("CreateBus")
    /\ Reset
    /\ NoteHooks
    /\ UNCHANGED <<cfg, bus, cpu, gpc, steps, exitChan, sigChan,
                   exitStatus, ram, core, defers, proc, atInterrupt>>

\* addressBus, _ := CreateBus(): the error is discarded.
CreateBus ==
    /\ At("CreateBus")
    /\ Goto("AttachRam")
    /\ bus' = <<>>
    /\ UNCHANGED <<viaVars, cfg, cpu, gpc, steps, exitChan, sigChan,
                   exitStatus, ram, core, defers, proc, atInterrupt, hooked>>

\* Two attachments' ranges [base, base+size) overlap.
Overlaps(b, base, size) ==
    \E i \in 1..Len(b) : b[i].base < base + size /\ base < b[i].base + b[i].size

\* Bus.Attach(device, name, base): registers the device, and fails fatally
\* when its range overlaps an attachment.  What Attach does on a bus whose
\* creation failed is not known: it registers the device or panics.
BusAttach(name, base, size, to) ==
    \/ /\ ~Overlaps(bus, base, size)
       /\ bus' = Append(bus, [name |-> name, base |-> base, size |-> size])
       /\ Goto(to)
       /\ UNCHANGED <<defers, proc>>
    \/ /\ Overlaps(bus, base, size) \/ ~cfg.busOk
       /\ MainPanic
       /\ UNCHANGED bus

\* addressBus.Attach(ram, "ram", 0x0000)
AttachRam ==
    /\ At("AttachRam")
    /\ BusAttach("ram", 0, cfg.ramSize, "AttachVia")
    /\ UNCHANGED <<viaVars, cfg, cpu, gpc, steps, exitChan, sigChan,
                   exitStatus, ram, core, atInterrupt, hooked>>

\* addressBus.Attach(via, "VIA", 0xC000); Size() is 16.
AttachVia ==
    /\ At("AttachVia")
    /\ BusAttach("VIA", 49152, 16, "AttachRom")
    /\ UNCHANGED <<viaVars, cfg, cpu, gpc, steps, exitChan, sigChan,
                   exitStatus, ram, core, atInterrupt, hooked>>

\* addressBus.Attach(kernal, "kernal", 0xE000); the image is 8 KiB.
AttachRom ==
    /\ At("AttachRom")
    /\ BusAttach("kernal", 57344, 8192, "NewCpu")
    /\ UNCHANGED <<viaVars, cfg, cpu, gpc, steps, exitChan, sigChan,
                   exitStatus, ram, core, atInterrupt, hooked>>

\* exitChan := make(chan int, 0); cpu := &Cpu{Bus: addressBus, ExitChan: exitChan}
NewCpu ==
    /\ At("NewCpu")
    /\ Goto("Debugger")
    /\ cpu' = "new"
    /\ UNCHANGED <<viaVars, cfg, bus, gpc, steps, exitChan, sigChan,
                   exitStatus, ram, core, defers, proc, atInterrupt, hooked>>

\* if options.Debug { debugger := NewDebugger(cpu); defer debugger.Close(); ... }
Debugger ==
    /\ At("Debugger")
    /\ Goto("CpuReset")
    /\ defers' = IF cfg.Debug THEN <<"debugger.Close">> \o defers ELSE defers
    /\ UNCHANGED <<viaVars, cfg, bus, cpu, gpc, steps, exitChan, sigChan,
                   exitStatus, ram, core, proc, atInterrupt, hooked>>

\* cpu.Reset()
CpuReset ==
    /\ At("CpuReset")
    /\ Goto("Go")
    /\ cpu' = "reset"
    /\ UNCHANGED <<viaVars, cfg, bus, gpc, steps, exitChan, sigChan,
                   exitStatus, ram, core, defers, proc, atInterrupt, hooked>>

\* go func() { for { cpu.Step(); i++ } }()
Go ==
    /\ At("Go")
    /\ Goto("Notify")
    /\ gpc' = "run"
    /\ UNCHANGED <<viaVars, cfg, bus, cpu, steps, exitChan, sigChan,
                   exitStatus, ram, core, defers, proc, atInterrupt, hooked>>

\* sigChan := make(chan os.Signal, 1); signal.Notify(sigChan, os.Interrupt)
Notify ==
    /\ At("Notify")
    /\ Goto("Select")
    /\ UNCHANGED <<viaVars, cfg, bus, cpu, gpc, steps, exitChan, sigChan,
                   exitStatus, ram, core, defers, proc, atInterrupt, hooked>>

\* ------------------------------------------------------ processor goroutine

\* The goroutine is between two statements of a Step it may begin.
Stepping == proc = "running" /\ gpc = "run" /\ steps < MaxSteps

\* A Step that writes the RAM.
StepRam ==
    /\ Stepping
    /\ steps' = steps + 1
    /\ ram' = ram + 1
    /\ UNCHANGED <<viaVars, pc, cfg, bus, cpu, gpc, exitChan, sigChan, exitStatus,
                   core, defers, proc, trace, atInterrupt, hooked>>

\* A Step that accesses a VIA register through the bus.  The panic of an
\* unhandled register is in the goroutine: it ends the process at once, and
\* no deferred call of mainReturningStatus runs.
StepVia ==
    /\ Stepping
    /\ steps' = steps + 1
    /\ \E a \in CpuViaAddrs : \/ Read(a)
                              \/ \E data \in WriteData(a) : Write(a, data)
    /\ proc' = IF last'.outcome = "panic" THEN "panicked" ELSE proc
    /\ NoteHooks
    /\ UNCHANGED <<pc, cfg, bus, cpu, gpc, exitChan, sigChan, exitStatus,
                   ram, core, defers, trace, atInterrupt>>

\* A Step in which the processor publishes an exit code: the send on the
\* unbuffered ExitChan blocks until the supervisor receives.
StepExit(code) ==
    /\ Stepping
    /\ steps' = steps + 1
    /\ gpc' = "send"
    /\ exitChan' = code
    /\ UNCHANGED <<viaVars, pc, cfg, bus, cpu, sigChan, exitStatus,
                   ram, core, defers, proc, trace, atInterrupt, hooked>>

\* ------------------------------------------------------------------ signal

\* The statements from which sigChan is registered with signal.Notify.
Registered == pc \in {"Select", "Println(cpu)", "Dump", "Dumping", "Return"}

\* An os.Interrupt is delivered: Notify's non-blocking send puts it in
\* sigChan when there is room, and drops it otherwise.
Interrupt ==
    /\ proc = "running"
    /\ Registered
    /\ sigChan = 0
    /\ sigChan' = 1
    /\ UNCHANGED <<viaVars, pc, cfg, bus, cpu, gpc, steps, exitChan, exitStatus,
                   ram, core, defers, proc, trace, atInterrupt, hooked>>

\* ------------------------------------------------------------------ select

\* Mutant: the post-mortem is not guarded by the exit status.
AfterSelect_AlwaysPostMortem(status) == "Println(cpu)"

\* Where the supervisor goes after the select: if exitStatus != 0 { ... }
AfterSelect(status) == IF status # 0 THEN "Println(cpu)" ELSE "Return"

\* Mutant: the code received from exitChan is dropped for the fixed status 1.
RecvExit_DropsCode ==
    /\ At("Select")
    /\ gpc = "send"
    /\ exitStatus' = 1
    /\ exitChan' = None
    /\ gpc' = "run"
    /\ pc' = AfterSelect(exitStatus')
    /\ trace' = Append(trace, "<-exitChan")
    /\ UNCHANGED <<viaVars, cfg, bus, cpu, steps, sigChan,
                   ram, core, defers, proc, atInterrupt, hooked>>

\* case exitStatus = <-exitChan: the blocked send completes.
RecvExit ==
    /\ At("Select")
    /\ gpc = "send"
    /\ exitStatus' = exitChan
    /\ exitChan' = None
    /\ gpc' = "run"
    /\ pc' = AfterSelect(exitStatus')
    /\ trace' = Append(trace, "<-exitChan")
    /\ UNCHANGED <<viaVars, cfg, bus, cpu, steps, sigChan,
                   ram, core, defers, proc, atInterrupt, hooked>>

\* Mutant: the signal is received only once the processor has stopped stepping
\* to publish a code.
RecvSig_WaitsForProcessor ==
    /\ At("Select")
    /\ sigChan = 1
    /\ gpc = "send"
    /\ sigChan' = 0
    /\ exitStatus' = 1
    /\ pc' = AfterSelect(exitStatus')
    /\ trace' = Append(trace, "<-sigChan")
    /\ atInterrupt' = [ram |-> ram, steps |-> steps]
    /\ UNCHANGED <<viaVars, cfg, bus, cpu, gpc, steps, exitChan,
                   ram, core, defers, proc, hooked>>

\* case sig = <-sigChan: fmt.Println("\nGot signal:", sig); exitStatus = 1
RecvSig ==
    /\ At("Select")
    /\ sigChan = 1
    /\ sigChan' = 0
    /\ exitStatus' = 1
    /\ pc' = AfterSelect(exitStatus')
    /\ trace' = Append(trace, "<-sigChan")
    /\ atInterrupt' = [ram |-> ram, steps |-> steps]
    /\ UNCHANGED <<viaVars, cfg, bus, cpu, gpc, steps, exitChan,
                   ram, core, defers, proc, hooked>>

\* ------------------------------------------------------------- post-mortem

\* fmt.Println(cpu)
PrintCpu ==
    /\ At("Println(cpu)")
    /\ Goto("Dump")
    /\ UNCHANGED <<viaVars, cfg, bus, cpu, gpc, steps, exitChan, sigChan,
                   exitStatus, ram, core, defers, proc, atInterrupt, hooked>>

\* fmt.Println("Dumping RAM into core file"); ram.Dump("core") begins: the
\* file is created and the copy of the RAM starts.
Dump ==
    /\ At("Dump")
    /\ pc' = "Dumping"
    /\ trace' = Append(trace, pc)
    /\ core' = ram
    /\ UNCHANGED <<viaVars, cfg, bus, cpu, gpc, steps, exitChan, sigChan,
                   exitStatus, ram, defers, proc, atInterrupt, hooked>>

\* ram.Dump("core") ends.  The goroutine was not stopped, so its Steps may
\* have written the RAM while it was copied (a data race): the file holds the
\* RAM as it was at some point between the beginning and the end of the copy.
DumpEnd ==
    /\ At("Dumping")
    /\ pc' = "Return"
    /\ \E r \in core..ram : core' = r
    /\ UNCHANGED <<viaVars, cfg, bus, cpu, gpc, steps, exitChan, sigChan,
                   exitStatus, ram, defers, proc, trace, atInterrupt, hooked>>

\* return exitStatus: the deferred calls run, then main's os.Exit ends the
\* process with that status.
Return ==
    /\ At("Return")
    /\ pc' = "done"
    /\ trace' = Append(trace, pc) \o defers \o <<"os.Exit">>
    /\ defers' = <<>>
    /\ proc' = "exited"
    /\ UNCHANGED <<viaVars, cfg, bus, cpu, gpc, steps, exitChan, sigChan,
                   exitStatus, ram, core, atInterrupt, hooked>>

\* The supervisor's statements.
Supervisor ==
    \/ RomFromFile \/ NewVia \/ AttachDisplay \/ ViaReset
    \/ CreateBus \/ AttachRam \/ AttachVia \/ AttachRom
    \/ NewCpu \/ Debugger \/ CpuReset \/ Go \/ Notify
    \/ RecvExit \/ RecvSig \/ PrintCpu \/ Dump \/ DumpEnd \/ Return

\* The processor goroutine's Steps.
Processor == StepRam \/ StepVia \/ \E code \in ExitCodes : StepExit(code)

MainNext == Supervisor \/ Processor \/ Interrupt

MainSpec == MainInit /\ [][MainNext]_vars

\* Goroutines are scheduled preemptively: the supervisor is not starved by
\* the stepping goroutine, so a statement it can execute is executed.
FairMainSpec == MainSpec /\ WF_vars(Supervisor)

\* ------------------------------------------------------------ specification

Next ==
    \/ \E p \in Peripherals : AttachToPortA(p) /\ UNCHANGED supVars
    \/ \E p \in Peripherals : AttachToPortB(p) /\ UNCHANGED supVars
    \/ Reset /\ UNCHANGED supVars
    \/ \E a \in Addrs : Read(a) /\ UNCHANGED supVars
    \/ \E a \in Addrs : \E data \in WriteData(a) : Write(a, data) /\ UNCHANGED supVars
    \/ Shutdown /\ UNCHANGED supVars

\* The VIA as constructed by NewVia6522, driven directly.
ViaInit == Init /\ NoSupervisor

Spec == ViaInit /\ [][Next]_vars

\* The control-line modes are decoded of every PCR value: the VIA as
\* NewVia6522 made it and one Write of a byte to PCR left it.
PcrInit ==
    /\ pcr \in Byte
    /\ ora = 0 /\ orb = 0 /\ ira = 0 /\ irb = 0
    /\ ddra = 0 /\ ddrb = 0
    /\ options \in OptionChoices
    /\ paPeripherals = <<>>
    /\ pbPeripherals = <<>>
    /\ last = Op("Write", viaPcr, pcr, None, None, "ok")
    /\ calls = <<>>
    /\ written = [a \in HandledAddrs |-> IF a = viaPcr THEN pcr ELSE 0]
    /\ NoSupervisor

PcrNext ==
    \/ \E portOffset \in PcrOffsets : CallControl1Mode(portOffset) /\ UNCHANGED supVars
    \/ \E portOffset \in PcrOffsets : CallControl2Mode(portOffset) /\ UNCHANGED supVars

PcrSpec == PcrInit /\ [][PcrNext]_vars

\* ------------------------------------------------------------------ claims

\* What the last operation was.
PortAccess(op) == last.op = op /\ last.a \in {viaOrb, viaOra} /\ last.outcome = "ok"

\* The port the last port access addressed: its list and registers.
PortList == IF last.a = viaOra THEN paPeripherals ELSE pbPeripherals
PortOr == IF last.a = viaOra THEN ora ELSE orb
PortDdr == IF last.a = viaOra THEN ddra ELSE ddrb

\* The calls of method m the last operation made, in order.
CallsOf(m) == SelectSeq(calls, LAMBDA c : c.m = m)

\* How many times the last operation called method m of peripheral p.
TimesCalled(p, m) == Cardinality({i \in 1..Len(calls) : calls[i].p = p /\ calls[i].m = m})

\* The byte peripheral p's Read() returned to the last operation.
ReadIn(p) == (CHOOSE c \in Range(calls) : c.p = p /\ c.m = "Read").v

Bits == 0..7

\* Bit i of the input composed from the peripherals on the port: some
\* peripheral attached to it drives the pin (within its mask) high.
InputBit(i) ==
    IF \E p \in Range(PortList) : Bit(ReadIn(p), i) = 1 /\ Bit(PinMask(p), i) = 1
    THEN 1 ELSE 0

\* C1: a read of a port register (0x1 for A, 0x0 for B) returns, bit by bit,
\* ORx where DDRx is 1 and, where DDRx is 0, the OR over the port's
\* peripherals of (Read() & PinMask()), each peripheral sampled once in this
\* very read.
C1_PortReadComposition ==
    PortAccess("Read") =>
        /\ \A p \in Range(PortList) : TimesCalled(p, "Read") = 1
        /\ \A i \in Bits :
              Bit(last.ret, i) = IF Bit(PortDdr, i) = 1 THEN Bit(PortOr, i)
                                 ELSE InputBit(i)
        /\ PortDdr = 255 => last.ret = PortOr
        /\ PortDdr = 0 => \A i \in Bits : Bit(last.ret, i) = InputBit(i)

\* C1 witness: DDRA=0x0F, ORA=0x3C, one port-A peripheral with mask 0xF0
\* whose Read() gave 0xA5: the read returned 0xAC.
C1_Witness ==
    /\ PortAccess("Read") /\ last.a = viaOra
    /\ ddra = 15 /\ ora = 60
    /\ paPeripherals = <<2>> /\ PinMask(2) = 240 /\ ReadIn(2) = 165
    /\ last.ret = 172

\* C2: a write of d to a port's output register stores d in ORx and calls
\* Write exactly once on every peripheral of that port, in attachment order,
\* with d & DDRx & PinMask().
C2_WriteFanout ==
    PortAccess("Write") =>
        LET w == CallsOf("Write") IN
        /\ PortOr = last.data
        /\ Len(w) = Len(PortList)
        /\ \A k \in 1..Len(w) :
              /\ w[k].p = PortList[k]
              /\ \A i \in Bits :
                    Bit(w[k].v, i) = Bit(last.data, i) * Bit(PortDdr, i)
                                     * Bit(PinMask(w[k].p), i)
        /\ \A p \in Peripherals :
              TimesCalled(p, "Write") = IF p \in Range(PortList) THEN 1 ELSE 0

\* C2 witness: a write to ORA fanned out to two port-A peripherals attached
\* one after the other, each receiving a different non-zero byte.
C2_Witness ==
    /\ PortAccess("Write") /\ last.a = viaOra /\ last.data = 255 /\ ddra = 255
    /\ paPeripherals = <<1, 2>>
    /\ CallsOf("Write") = <<Call(1, "Write", 15), Call(2, "Write", 240)>>

\* The Write calls that a write of 0xFF to a port register made on the
\* peripherals whose pin mask is 0x0F.
WritesOfFFToMask0F ==
    IF PortAccess("Write") /\ last.data = 255
    THEN {c \in Range(calls) : c.m = "Write" /\ PinMask(c.p) = 15}
    ELSE {}

\* C3 as stated: writing 0xFF to a port with a mask-0x0F peripheral delivers
\* exactly 0x0F to it, whatever the state.
C3_Original == \A c \in WritesOfFFToMask0F : c.v = 15

\* C3 amended: it delivers DDRx & 0x0F, which is 0x0F exactly when the low
\* four bits of DDRx are all set.
C3_DeliversDdrMasked ==
    \A c \in WritesOfFFToMask0F :
        /\ c.v = PortDdr % 16
        /\ (c.v = 15) <=> (\A i \in 0..3 : Bit(PortDdr, i) = 1)

\* C3 witness: with the low nibble of DDRx set, 0x0F is delivered.
C3_Witness == PortDdr = 15 /\ \E c \in WritesOfFFToMask0F : c.v = 15

\* C4: with no peripheral on the port, a read of the port register returns
\* O & D, O the last byte written to ORx since the last Reset (0 if none)
\* and D the current DDRx.
C4_NoPeripheralReadsBack ==
    (PortAccess("Read") /\ PortList = <<>>) =>
        \A i \in Bits : Bit(last.ret, i) = Bit(written[last.a], i) * Bit(PortDdr, i)

\* C4 witness: DDRA=0xFF, then ORA=0x3C, reads back 0x3C.
C4_Witness ==
    /\ PortAccess("Read") /\ last.a = viaOra /\ paPeripherals = <<>>
    /\ ddra = 255 /\ written[viaOra] = 60 /\ last.ret = 60

\* The byte the last port read would have returned had peripheral p's Read()
\* returned v instead, everything else equal.
ReadResultWith(p, v) ==
    LET in == [q \in Range(PortList) |-> IF q = p THEN v ELSE ReadIn(q)] IN
    readMixedInputOutput(ComposeInput(0, PortList, in), PortOr, PortDdr)

AltReadBytes == {0, 90, 165, 255}

\* C5: changing only the byte one peripheral's Read() returns leaves the
\* result of the port read unchanged on every bit outside that peripheral's
\* mask and on every output bit; masks 0x0F and 0xF0 on one port with
\* DDRx = 0 read back as (r1 & 0x0F) | (r2 & 0xF0).
C5_PeripheralConfinedToMask ==
    PortAccess("Read") =>
        /\ \A p \in Range(PortList) : \A v \in AltReadBytes : \A i \in Bits :
              (Bit(PinMask(p), i) = 0 \/ Bit(PortDdr, i) = 1)
                  => Bit(ReadResultWith(p, v), i) = Bit(last.ret, i)
        /\ \A p, q \in Range(PortList) :
              (Len(PortList) = 2 /\ PinMask(p) = 15 /\ PinMask(q) = 240 /\ PortDdr = 0)
                  => last.ret = (ReadIn(p) % 16) + 16 * (ReadIn(q) \div 16)

\* C5 witness: two peripherals with masks 0x0F and 0xF0 on port B, all pins
\* input, returning different bytes.
C5_Witness ==
    /\ PortAccess("Read") /\ last.a = viaOrb /\ ddrb = 0 /\ orb # 0
    /\ Range(pbPeripherals) = {1, 2} /\ PinMask(1) = 15 /\ PinMask(2) = 240
    /\ ReadIn(1) = 60 /\ ReadIn(2) = 165
    /\ last.ret = 172

\* C6: Reset zeroes the seven registers and leaves the options and both
\* peripheral lists as they were; an attachment, before or after a Reset,
\* appends the peripheral to its port's list and touches nothing else.
C6_ResetFrame ==
    [][ /\ last'.op = "Reset" =>
              /\ regs' = <<0, 0, 0, 0, 0, 0, 0>>
              /\ UNCHANGED <<paPeripherals, pbPeripherals, options>>
        /\ last'.op = "AttachToPortA" =>
              /\ paPeripherals' = Append(paPeripherals, last'.p)
              /\ UNCHANGED <<pbPeripherals, regs, options>>
        /\ last'.op = "AttachToPortB" =>
              /\ pbPeripherals' = Append(pbPeripherals, last'.p)
              /\ UNCHANGED <<paPeripherals, regs, options>>
      ]_vars

\* C6 witness: a Reset has just run on a VIA with peripherals on both ports,
\* and they are still attached.
C6_Witness ==
    /\ last.op = "Reset"
    /\ paPeripherals # <<>> /\ pbPeripherals # <<>>
    /\ regs = <<0, 0, 0, 0, 0, 0, 0>>

\* C7: a Read or Write at an address other than 0x0, 0x1, 0x2, 0x3, 0xC
\* panics: it returns no byte, invokes no peripheral, and changes neither the
\* registers nor the peripheral lists.
C7_UnhandledAddressFaults ==
    [][ (last'.op \in {"Read", "Write"} /\ last'.a \notin HandledAddrs) =>
            /\ last'.outcome = "panic"
            /\ last'.ret = None
            /\ calls' = <<>>
            /\ UNCHANGED <<regs, lists>>
      ]_vars

\* C7 witness: an access at 0xD panicked on a VIA with non-zero registers
\* and a peripheral attached.
C7_Witness ==
    /\ last.op \in {"Read", "Write"} /\ last.a = 13 /\ last.outcome = "panic"
    /\ ora # 0 /\ ddra # 0 /\ paPeripherals # <<>>

\* C8: reading DDRB, DDRA or PCR returns the last byte written to that
\* address since the last Reset (0 if none), and a write to one of the three
\* leaves the other two as they were.
C8_StoreReadBack ==
    /\ [](( last.op = "Read" /\ last.a \in {viaDdrb, viaDdra, viaPcr} )
             => last.ret = written[last.a])
    /\ [][ /\ (last'.op = "Write" /\ last'.a = viaDdrb) => UNCHANGED <<ddra, pcr>>
           /\ (last'.op = "Write" /\ last'.a = viaDdra) => UNCHANGED <<ddrb, pcr>>
           /\ (last'.op = "Write" /\ last'.a = viaPcr) => UNCHANGED <<ddra, ddrb>>
         ]_vars

\* C8 witness: DDRB read back while the three registers hold three
\* different values.
C8_Witness ==
    /\ last.op = "Read" /\ last.a = viaDdrb /\ last.ret = 15
    /\ ddra = 255 /\ pcr = 165

\* The peripherals whose Shutdown hook the last operation invoked, in order.
HooksInvoked == [k \in 1..Len(CallsOf("Shutdown")) |-> CallsOf("Shutdown")[k].p]

\* A hook panicked during the last operation.
HookFailed == \E c \in Range(calls) : c.m = "panic"

\* C9 as stated: one call of Shutdown invokes the hook of every attached
\* peripheral exactly once, port A's in attachment order, then port B's.
C9_Original ==
    last.op = "Shutdown" => HooksInvoked = paPeripherals \o pbPeripherals

\* What does hold of Shutdown: the hooks invoked are an initial part of port
\* A's list followed by port B's, and all of it when no hook panics.
C9_ShutdownOrder ==
    last.op = "Shutdown" =>
        /\ HooksInvoked = SubSeq(paPeripherals \o pbPeripherals, 1, Len(HooksInvoked))
        /\ ~HookFailed => HooksInvoked = paPeripherals \o pbPeripherals

\* C10 as stated: when a hook fails, the remaining hooks are still invoked
\* and the failure is not fatal.
C10_Original ==
    (last.op = "Shutdown" /\ HookFailed) =>
        /\ HooksInvoked = paPeripherals \o pbPeripherals
        /\ last.outcome = "ok"

\* What the code does instead: the panic of a hook ends Shutdown there.
C10_PanicAbortsShutdown ==
    (last.op = "Shutdown" /\ HookFailed) =>
        /\ last.outcome = "panic"
        /\ calls[Len(calls)].m = "panic"
        /\ Cardinality({i \in 1..Len(calls) : calls[i].m = "panic"}) = 1

\* ------------------------------------------------------- supervisor claims

\* The supervisor has executed statement e.
Did(e) == \E i \in 1..Len(trace) : trace[i] = e

\* The select has received from one of its two channels.
Selected == Did("<-exitChan") \/ Did("<-sigChan")

\* C11: the exit status is the code received from exitChan when that is what
\* the select receives, and 1 when it receives the signal; the select
\* receives from exactly one of the two, and nothing that arrives afterwards
\* changes the status.
C11_FirstReceivedDecides ==
    /\ [](/\ ~(Did("<-exitChan") /\ Did("<-sigChan"))
          /\ pc \in {"Println(cpu)", "Dump", "Dumping", "Return"} => Selected
          /\ proc = "exited" => Selected
          /\ Did("<-sigChan") => exitStatus = 1
          /\ ~Selected => exitStatus = 0)
    /\ [][ /\ (~Did("<-exitChan") /\ Did("<-exitChan")') => exitStatus' = exitChan
           /\ (~Did("<-sigChan") /\ Did("<-sigChan")') =>
                 (exitStatus' = 1 /\ exitChan' = exitChan /\ gpc' = gpc)
           /\ Selected => (exitStatus' = exitStatus /\ Selected')
         ]_vars

\* C11 witness: the signal was received and decided status 1; the processor
\* then published code 0, which nobody received, and the process exited.
C11_Witness ==
    /\ Did("<-sigChan") /\ exitStatus = 1
    /\ gpc = "send" /\ exitChan = 0
    /\ proc = "exited"

\* C12: the processor state is printed and the RAM dumped exactly when the
\* exit status is non-zero: on every interrupt exit and every non-zero code,
\* never when code 0 is received.
C12_PostMortemIffNonZero ==
    /\ Did("Dump") => Did("Println(cpu)")
    /\ Did("Dump") <=> core # None
    /\ Did("Println(cpu)") => exitStatus # 0
    /\ (pc \in {"Return", "done"} /\ Selected) =>
          /\ Did("Dump") <=> exitStatus # 0
          /\ Did("Println(cpu)") <=> exitStatus # 0
    /\ (proc = "exited" /\ Did("<-sigChan")) => Did("Dump")
    /\ (Did("<-exitChan") /\ exitStatus = 0) => ~Did("Println(cpu)")

\* C12 witness: a run that exited with the processor's code 2 and dumped,
\* the RAM having been written.
C12_Witness ==
    /\ proc = "exited" /\ Did("<-exitChan") /\ exitStatus = 2
    /\ core # None /\ core > 0

\* C13 as stated: whichever way the process ends (status 0, a non-zero
\* processor status, an interrupt, a fatal fault), the Shutdown hook of every
\* peripheral attached to the VIA has been invoked by then.
C13_Original ==
    proc # "running" => Attached \subseteq hooked

\* What the code does instead: no run invokes any Shutdown hook; the only
\* teardown of the display is its deferred Close, and that runs only when
\* mainReturningStatus itself returns or panics.
C13_NoHookEverInvoked ==
    /\ hooked = {}
    /\ \A i \in 1..Len(calls) : calls[i].m # "Shutdown"
    /\ (proc = "exited" /\ cfg.ViaSsd1306) => Did("ssd1306.Close")

\* C14 as stated: after the select has received the interrupt the goroutine
\* takes no further Step, and the file "core" holds the RAM as it was at the
\* moment of the interrupt.
C14_Original ==
    Did("<-sigChan") =>
        /\ steps = atInterrupt.steps
        /\ ram = atInterrupt.ram
        /\ (pc \in {"Return", "done"} => core = atInterrupt.ram)

\* The three ranges of the fixed memory map, given the size of the RAM.
FixedMap(ramSize) ==
    << [name |-> "ram", base |-> 0, size |-> ramSize],
       [name |-> "VIA", base |-> 49152, size |-> 16],
       [name |-> "kernal", base |-> 57344, size |-> 8192] >>

\* Some attachment of the fixed map overlaps one made before it.
FixedMapOverlaps(ramSize) ==
    \E k \in 2..3 :
        Overlaps(SubSeq(FixedMap(ramSize), 1, k - 1),
                 FixedMap(ramSize)[k].base, FixedMap(ramSize)[k].size)

\* C15 as stated: when an attachment overlaps or CreateBus fails, the
\* processor is never reset and never takes a Step.
C15_Original ==
    (~cfg.busOk \/ FixedMapOverlaps(cfg.ramSize)) =>
        (cpu # "reset" /\ gpc = "idle" /\ steps = 0)

\* What does hold: an overlapping attachment on a bus that was created
\* stops the startup; the error of CreateBus alone does not.
C15_OverlapStops ==
    (cfg.busOk /\ FixedMapOverlaps(cfg.ramSize)) =>
        (cpu = "none" /\ gpc = "idle" /\ steps = 0 /\ Len(bus) <= 1)

\* The processor has published a code nobody received yet, or a signal is
\* waiting in sigChan.
Notified == proc = "running" /\ (gpc = "send" \/ sigChan = 1)

\* C16 as stated: once the processor has published an exit code or an
\* interrupt was delivered, the supervisor eventually returns an exit status.
C16_Original == Notified ~> proc = "exited"

\* What does hold under fair scheduling: the supervisor eventually returns,
\* unless a fault of the stepping goroutine ends the process first; the
\* receive of the code completes the processor's blocked send, and the
\* receive of the signal leaves the goroutine as it is.
C16_ReturnsUnlessFault ==
    /\ Notified ~> (proc = "exited" \/ (proc = "panicked" /\ last.outcome = "panic"))
    /\ [][ /\ (~Did("<-exitChan") /\ Did("<-exitChan")') =>
                 (gpc = "send" /\ gpc' = "run" /\ exitChan' = None)
           /\ (~Did("<-sigChan") /\ Did("<-sigChan")') => UNCHANGED <<gpc, steps>>
           /\ (proc = "running" /\ proc' = "exited") => UNCHANGED <<gpc, steps, exitStatus>>
         ]_vars

\* C16 witness: the supervisor received the signal and returned while the
\* goroutine was still stepping, with Steps left to take.
C16_Witness ==
    /\ proc = "exited" /\ Did("<-sigChan")
    /\ gpc = "run" /\ steps > atInterrupt.steps /\ steps < MaxSteps

\* The bus holds an attachment of that name at that base address.
BusHas(name, base) == \E i \in 1..Len(bus) : bus[i].name = name /\ bus[i].base = base

\* C17: the startup steps happen in the order of the source: the display is
\* attached to port B before the VIA is reset; the VIA is reset before it is
\* attached to the bus; RAM, VIA and ROM are attached at 0x0000, 0xC000 and
\* 0xE000 before the processor is constructed; the processor is reset before
\* its first Step; the wait begins only after stepping was started; and the
\* display is still attached when stepping begins.
C17_StartupOrder ==
    /\ pbPeripherals # <<>> => (cfg.ViaSsd1306 /\ Did("AttachDisplay"))
    /\ (pc = "ViaReset" \/ Did("ViaReset")) =>
          /\ Did("AttachDisplay")
          /\ cfg.ViaSsd1306 => pbPeripherals = <<1>>
    /\ (pc = "ViaReset" /\ cfg.ViaSsd1306) => last.op = "AttachToPortB"
    /\ BusHas("VIA", 49152) => Did("ViaReset")
    /\ bus # <<>> => (Did("ViaReset") /\ BusHas("ram", 0))
    /\ cpu # "none" => bus = FixedMap(cfg.ramSize)
    /\ (gpc # "idle" \/ steps > 0) => (cpu = "reset" /\ Did("CpuReset"))
    /\ (pc = "Select" \/ Selected) => (gpc # "idle" /\ Did("Go"))
    /\ (gpc # "idle" /\ cfg.ViaSsd1306) => (pbPeripherals = <<1>> /\ paPeripherals = <<>>)

\* C17 witness: the supervisor waits while the processor, reset, has taken
\* Steps, with the display still on port B and the three devices on the bus.
C17_Witness ==
    /\ pc = "Select" /\ proc = "running" /\ cfg.ViaSsd1306
    /\ gpc = "run" /\ steps > 0 /\ cpu = "reset"
    /\ pbPeripherals = <<1>>
    /\ Len(bus) = 3

\* C18: control1Mode(offset) is bit `offset` of PCR and control2Mode(offset)
\* the 3-bit field at bits offset+1..offset+3, for offsets 0 and 4; the four
\* fields together give PCR back; and neither call changes the VIA.
C18_ControlModeDecoding ==
    /\ [](/\ last.op = "control1Mode" =>
                (last.ret = Bit(pcr, last.a) /\ last.ret \in 0..1)
          /\ last.op = "control2Mode" =>
                /\ last.ret = Bit(pcr, last.a + 1) + 2 * Bit(pcr, last.a + 2)
                                 + 4 * Bit(pcr, last.a + 3)
                /\ last.ret \in 0..7
          /\ pcr = control1Mode(viaPcrOffsetA) + 2 * control2Mode(viaPcrOffsetA)
                     + 16 * control1Mode(viaPcrOffsetB) + 32 * control2Mode(viaPcrOffsetB))
    /\ [][ last'.op \in {"control1Mode", "control2Mode"} =>
               (UNCHANGED <<regs, options, lists, written>> /\ calls' = <<>>) ]_vars

\* C18 witness: port B's 3-bit field decoded of a PCR whose two ports differ
\* in every field (0xA5: CA1 = 1, CA2 = 2, CB1 = 0, CB2 = 5).
C18_Witness ==
    /\ last.op = "control2Mode" /\ last.a = viaPcrOffsetB
    /\ pcr = 165 /\ last.ret = 5
    /\ control1Mode(viaPcrOffsetA) = 1 /\ control2Mode(viaPcrOffsetA) = 2

\* The peripherals the operation that ends in the primed state invoked, and
\* the methods it invoked on them (the diagnostics are not peripherals).
Invoked == {calls'[i].p : i \in {j \in 1..Len(calls') : calls'[j].p # 0}}
Methods == {calls'[i].m : i \in {j \in 1..Len(calls') : calls'[j].p # 0}}

\* C19: a write to ORA changes only ORA and invokes only port-A peripherals;
\* a write to ORB changes only ORB and invokes only port-B peripherals; a
\* write to DDRA, DDRB or PCR changes only that register and invokes no
\* peripheral.  ORx holds the whole byte last written, whatever DDRx is, and
\* a read of the port gives ORx's bits on the pins DDRx now makes outputs.
C19_WritesPortIsolated ==
    /\ [][ (last'.op = "Write" /\ last'.outcome = "ok") =>
             /\ UNCHANGED <<options, lists, ira, irb>>
             /\ last'.a = viaOra =>
                   /\ ora' = last'.data /\ UNCHANGED <<orb, ddra, ddrb, pcr>>
                   /\ Invoked = Range(paPeripherals)
                   /\ Invoked \cap Range(pbPeripherals) = {}
                   /\ Methods \subseteq {"PinMask", "Write"}
             /\ last'.a = viaOrb =>
                   /\ orb' = last'.data /\ UNCHANGED <<ora, ddra, ddrb, pcr>>
                   /\ Invoked = Range(pbPeripherals)
                   /\ Invoked \cap Range(paPeripherals) = {}
                   /\ Methods \subseteq {"PinMask", "Write"}
             /\ last'.a = viaDdra =>
                   (ddra' = last'.data /\ UNCHANGED <<ora, orb, ddrb, pcr>> /\ calls' = <<>>)
             /\ last'.a = viaDdrb =>
                   (ddrb' = last'.data /\ UNCHANGED <<ora, orb, ddra, pcr>> /\ calls' = <<>>)
             /\ last'.a = viaPcr =>
                   (pcr' = last'.data /\ UNCHANGED <<ora, orb, ddra, ddrb>> /\ calls' = <<>>)
         ]_vars
    /\ [](/\ ora = written[viaOra] /\ orb = written[viaOrb]
          /\ PortAccess("Read") =>
                \A i \in Bits : Bit(PortDdr, i) = 1 => Bit(last.ret, i) = Bit(PortOr, i))

\* C19 witness: DDRA was written while ORA held 0xFF and both ports had a
\* peripheral, and nobody was invoked.
C19_Witness ==
    /\ last.op = "Write" /\ last.a = viaDdra /\ last.data = 15
    /\ ora = 255 /\ orb = 60 /\ ddrb = 255
    /\ paPeripherals # <<>> /\ pbPeripherals # <<>>
    /\ calls = <<>>

\* The byte a read of the same port returns when it is repeated in this
\* state with every peripheral's Read() returning what it returned last.
RepeatedRead ==
    readMixedInputOutput(
        ComposeInput(0, PortList, [q \in Range(PortList) |-> ReadIn(q)]),
        PortOr, PortDdr)

\* C20: a read of 0x0 changes at most IRB and a read of 0x1 at most IRA, and
\* invokes only Read and PinMask, on its own port's peripherals; a read of
\* 0x2, 0x3 or 0xC changes nothing and invokes nobody; a read repeated with
\* the same peripheral outputs returns the same byte.
C20_ReadsDoNotDisturb ==
    /\ [][ (last'.op = "Read" /\ last'.outcome = "ok") =>
             /\ UNCHANGED <<ora, orb, ddra, ddrb, pcr, options, lists, written>>
             /\ last'.a = viaOrb =>
                   /\ UNCHANGED ira
                   /\ Invoked = Range(pbPeripherals)
                   /\ Invoked \cap Range(paPeripherals) = {}
                   /\ Methods \subseteq {"Read", "PinMask"}
             /\ last'.a = viaOra =>
                   /\ UNCHANGED irb
                   /\ Invoked = Range(paPeripherals)
                   /\ Invoked \cap Range(pbPeripherals) = {}
                   /\ Methods \subseteq {"Read", "PinMask"}
             /\ last'.a \in {viaDdrb, viaDdra, viaPcr} =>
                   (UNCHANGED <<ira, irb>> /\ calls' = <<>>)
             /\ (last.op = "Read" /\ last.a = last'.a /\ calls' = calls) =>
                   last'.ret = last.ret
         ]_vars
    /\ [](/\ PortAccess("Read") => RepeatedRead = last.ret
          /\ (last.op = "Read" /\ last.a = viaDdrb) => last.ret = ddrb
          /\ (last.op = "Read" /\ last.a = viaDdra) => last.ret = ddra
          /\ (last.op = "Read" /\ last.a = viaPcr) => last.ret = pcr)

\* C20 witness: port A, with inputs and outputs mixed and a peripheral on
\* each port, was read while every register held a value of its own.
C20_Witness ==
    /\ PortAccess("Read") /\ last.a = viaOra
    /\ paPeripherals = <<1>> /\ pbPeripherals = <<2>>
    /\ ora = 60 /\ ddra = 15 /\ orb = 255 /\ ddrb = 255 /\ pcr = 165
    /\ ira # 0 /\ last.ret # ora

====
